---- MODULE Spec2Model ----
(***************************************************************************)
(* A model of the incremental Google Drive synchronisation engine of       *)
(* app/engine/drive_downloader.py (class GoogleDriveDownloader).           *)
(*                                                                         *)
(* The remote store is a fixed folder skeleton (root / A / B) holding a    *)
(* changing set of files; the local side is a file system (regular files   *)
(* and directories at absolute locations) plus the process's working       *)
(* directory.  One run of download_from_folder is a sequence of steps, one *)
(* per blocking remote call, so that failures and remote changes can fall  *)
(* between them.                                                           *)
(*                                                                         *)
(* Modelling choices:                                                      *)
(*  - a path string is the pair (abs, comps): whether it starts with the   *)
(*    separator, and its components; names hold no inner separator and no  *)
(*    "." or ".." component;                                               *)
(*  - file contents are byte sequences; MD5 is an injective encoding (no   *)
(*    collisions within the bounds) that is never the empty string;        *)
(*  - folder names and file names are disjoint, so no directory sits at a  *)
(*    file's local path;                                                   *)
(*  - the remote does not change while one file's chunks are streamed, and *)
(*    local tampering happens between runs.                                *)
(*                                                                         *)
(* The second part models the MySQL chat store of                          *)
(* app/engine/mysqlchatstore.py (class MySQLChatStore): the table is the   *)
(* sequence of its committed rows in id order, a nullable column holds     *)
(* <<>> or <<value>>, and a call is one step per transaction, except       *)
(* add_message with an assistant message, whose SELECT and whose write     *)
(* are two steps so that calls of several sessions can interleave.         *)
(*                                                                         *)
(* The third part models _get_credentials_from_env_or_file as one step     *)
(* from every combination of the two environment variables, the two files  *)
(* and the token server's answer to a refresh.                             *)
(***************************************************************************)
EXTENDS Integers, Sequences, FiniteSets, TLC

\* ------------------------------------------------------------------ bounds
MaxFiles == 2      \* remote file identifiers 1..MaxFiles
MaxLen == 2        \* longest file content, in bytes
MaxEnv == 2        \* changes made by the environment (remote edits, local tampering)
MaxRuns == 2       \* calls of download_from_folder

\* chunksize of __init__, scaled to the model's byte counts
ChunkSize == 1

\* ------------------------------------------------------------------ values
FileIds == 1..MaxFiles
Byte == {0, 1}

RECURSIVE Repeat(_, _)
Repeat(b, n) == IF n = 0 THEN <<>> ELSE <<b>> \o Repeat(b, n - 1)

\* File contents: the empty file and the runs of one byte value.
Contents == {Repeat(b, n) : b \in Byte, n \in 0..MaxLen}

\* hashlib.md5(...).hexdigest(): an injective, never empty digest.
MD5(content) == <<Len(content)>> \o content

\* The Drive metadata value for "no md5Checksum": the empty string.
NoMd5 == <<>>

\* ------------------------------------------------------------------ paths
FOLDER_MIME == "application/vnd.google-apps.folder"
FILE_MIME == "application/octet-stream"

\* Folder identifiers follow the file identifiers.
RootId == MaxFiles + 1
FolderA == MaxFiles + 2
FolderB == MaxFiles + 3
SubFolders == {FolderA, FolderB}
FolderParent(d) == IF d = FolderA THEN RootId ELSE FolderA
FolderName(d) == IF d = FolderA THEN "A" ELSE "B"

Rel(comps) == [abs |-> FALSE, comps |-> comps]
Abs(comps) == [abs |-> TRUE, comps |-> comps]
EmptyPath == Rel(<<>>)

\* Where a remote file can be: a name (plain, or starting with "/") in a
\* folder.  Two files can carry the same name in the same folder.
Placements ==
    { [name |-> Rel(<<"x">>), parent |-> RootId],
      [name |-> Rel(<<"x">>), parent |-> FolderB],
      [name |-> Abs(<<"x">>), parent |-> FolderA] }

\* os.path.join(a, b): a component that starts with the separator discards
\* everything before it.
Join(a, b) == IF b.abs THEN b ELSE [abs |-> a.abs, comps |-> a.comps \o b.comps]

\* os.path.dirname(p) or '.'
Dirname(p) ==
    IF p.comps = <<>> THEN p
    ELSE [abs |-> p.abs, comps |-> SubSeq(p.comps, 1, Len(p.comps) - 1)]

\* The absolute location the operating system resolves path p to, for a
\* process whose working directory is wd.
Resolve(wd, p) == IF p.abs THEN p.comps ELSE wd \o p.comps

\* Every directory os.makedirs(p, exist_ok=True) leaves in existence.
Prefixes(loc) == {SubSeq(loc, 1, n) : n \in 0..Len(loc)}

InitialCwd == <<"w">>
LocalFolderArgs == {Rel(<<"out">>), Abs(<<"w", "out">>)}

VARIABLES
    \* the remote store and the local machine
    remote,                 \* present file id -> [name, parent, content, hasSize, hasMd5]
    disk,                   \* absolute location of a regular file -> content
    dirs,                   \* absolute locations of the directories
    cwd,                    \* os.getcwd()
    \* the GoogleDriveDownloader instance and the run in progress
    service,                \* self.service is set
    local_folder,           \* the local_folder argument of the runs
    pc,
    all_files,
    i,                      \* index of `info` in all_files
    files_to_download,
    total_size_to_download,
    old_cwd,
    k,                      \* index of `file_info` in files_to_download
    previous_progress,
    progress_n,             \* progress_bar.n: the sum of the update() deltas
    result,                 \* how the last run ended: "none", "running", "ok", "error"
    \* history
    runs,
    envCount,
    startCwd,               \* the working directory when the run started
    decided,                \* the change decisions of this run, in order
    opened,                 \* the files this run opened for writing, in order
    fsTouched,              \* this run has modified the local machine
    lateCall,               \* a listing/metadata call was made after fsTouched
    failedAt,               \* the pc at which the last failed run stopped
    changedInRun,           \* the environment acted during this run
    prev,                   \* the run before this one, and what changed up to this run's start
    remoteAtStart,          \* the remote store when this run started
    deleted, truncated,     \* local files deleted, truncated since this run started
    \* the MySQL table of MySQLChatStore and the calls in progress on it
    table,                  \* the committed rows, in id order
    next_id,                \* the AUTO_INCREMENT counter of the table
    sess,                   \* session -> the add_message call it is in
    \* history of the chat store
    ops,                    \* calls started
    added,                  \* key -> the messages given to add_message, in call order
    onlyAdds,               \* key -> nothing but add_message has written under the key
    sequential,             \* no call has started while another was in progress
    lastCall,               \* the call that ended last: [op, key, arg, before, ret]
    \* what _get_credentials_from_env_or_file works on
    cred_in,                \* the environment, the two files and the token server, as found
    token_json,             \* the content of token.json: <<>> (no file) or <<token>>
    cred_result             \* how the call ended

driveVars == <<remote, disk, dirs, cwd, service, local_folder, pc, all_files, i,
               files_to_download, total_size_to_download, old_cwd, k,
               previous_progress, progress_n, result, runs, envCount, startCwd,
               decided, opened, fsTouched, lateCall, failedAt, changedInRun, prev,
               remoteAtStart, deleted, truncated>>

chatVars == <<table, next_id, sess, ops, added, onlyAdds, sequential, lastCall>>

credVars == <<cred_in, token_json, cred_result>>

vars == <<driveVars, chatVars, credVars>>

\* ------------------------------------------------------------------ remote API
\* A page token is the offset of the page's first item; None is "no token".
None == 0
PageSize == 2

Min(a, b) == IF a < b THEN a ELSE b

RECURSIVE SortedSeq(_)
SortedSeq(S) ==
    IF S = {} THEN <<>>
    ELSE LET m == CHOOSE x \in S : \A y \in S : x <= y
         IN <<m>> \o SortedSeq(S \ {m})

FileItem(f) == [id |-> f, name |-> remote[f].name, mimeType |-> FILE_MIME]
FolderItem(d) == [id |-> d, name |-> Rel(<<FolderName(d)>>), mimeType |-> FOLDER_MIME]

\* The direct children of a folder, in the order the listing API returns
\* them: its files by identifier, then its subfolders.
Children(folder_id) ==
    LET fs == SortedSeq({f \in DOMAIN remote : remote[f].parent = folder_id})
        ds == SortedSeq({d \in SubFolders : FolderParent(d) = folder_id})
    IN [n \in 1..Len(fs) |-> FileItem(fs[n])] \o [n \in 1..Len(ds) |-> FolderItem(ds[n])]

\* service.files().list(q, pageToken).execute()
FilesList(folder_id, page_token) ==
    LET all == Children(folder_id)
        first == IF page_token = None THEN 1 ELSE page_token
        last == Min(first + PageSize - 1, Len(all))
    IN IF last < Len(all)
       THEN [files |-> SubSeq(all, first, last), nextPageToken |-> last + 1]
       ELSE [files |-> SubSeq(all, first, last)]

\* dict.get(key, default)
DictGet(data, key, default) == IF key \in DOMAIN data THEN data[key] ELSE default

\* ListPages that returns after its first request.
ListPagesFirstPage(folder_id, items, page_token) ==
    items \o DictGet(FilesList(folder_id, page_token), "files", <<>>)

\* The while loop of _list_files_in_folder, entered with items and page_token.
RECURSIVE ListPages(_, _, _)
ListPages(folder_id, items, page_token) ==
    LET response == FilesList(folder_id, page_token)
        items2 == items \o DictGet(response, "files", <<>>)
        page_token2 == DictGet(response, "nextPageToken", None)
    IN IF page_token2 = None THEN items2
       ELSE ListPages(folder_id, items2, page_token2)

_list_files_in_folder(folder_id) == ListPages(folder_id, <<>>, None)

\* service.files().get(fileId, fields='size, md5Checksum, modifiedTime'):
\* a field the remote does not report is missing from the response.
FilesGet(file_id) ==
    LET r == remote[file_id]
        base == [modifiedTime |-> "t"]
        withSize == [size |-> Len(r.content), modifiedTime |-> "t"]
        withMd5 == [md5Checksum |-> MD5(r.content), modifiedTime |-> "t"]
        both == [size |-> Len(r.content), md5Checksum |-> MD5(r.content),
                 modifiedTime |-> "t"]
    IN IF r.hasSize /\ r.hasMd5 THEN both
       ELSE IF r.hasSize THEN withSize
       ELSE IF r.hasMd5 THEN withMd5
       ELSE base

_get_file_metadata(file_id) ==
    LET data == FilesGet(file_id)
    IN [size |-> DictGet(data, "size", 0),
        md5 |-> DictGet(data, "md5Checksum", NoMd5),
        modified_time |-> DictGet(data, "modifiedTime", "")]

\* WalkItems that does not descend into the folders it meets.
RECURSIVE WalkItemsNoDescent(_, _)
WalkItemsNoDescent(items, parent_path) ==
    IF items = <<>> THEN <<>>
    ELSE LET item == Head(items)
             current_path == Join(parent_path, item.name)
             here ==
                IF item.mimeType = FOLDER_MIME
                THEN <<[id |-> item.id, name |-> item.name,
                        mimeType |-> item.mimeType, path |-> current_path]>>
                ELSE <<[id |-> item.id, name |-> item.name,
                        mimeType |-> item.mimeType, path |-> parent_path]>>
         IN here \o WalkItemsNoDescent(Tail(items), parent_path)

\* The for loop of _get_all_items_recursively over the listed items.
RECURSIVE _get_all_items_recursively(_, _)
RECURSIVE WalkItems(_, _)
WalkItems(items, parent_path) ==
    IF items = <<>> THEN <<>>
    ELSE LET item == Head(items)
             current_path == Join(parent_path, item.name)
             here ==
                IF item.mimeType = FOLDER_MIME
                THEN <<[id |-> item.id, name |-> item.name,
                        mimeType |-> item.mimeType, path |-> current_path]>>
                     \o _get_all_items_recursively(item.id, current_path)
                ELSE <<[id |-> item.id, name |-> item.name,
                        mimeType |-> item.mimeType, path |-> parent_path]>>
         IN here \o WalkItems(Tail(items), parent_path)

_get_all_items_recursively(folder_id, parent_path) ==
    WalkItems(_list_files_in_folder(folder_id), parent_path)

\* [f for f in all_items if f['mimeType'] != folder]
FilterFiles(all_items) == SelectSeq(all_items, LAMBDA f : f.mimeType # FOLDER_MIME)

\* ------------------------------------------------------------------ local machine
LocalPath(folder, file_info) == Join(Join(folder, file_info.path), file_info.name)

PathExists(p) == Resolve(cwd, p) \in (DOMAIN disk) \cup dirs
GetSize(p) == Len(disk[Resolve(cwd, p)])
ReadFile(p) == disk[Resolve(cwd, p)]

\* _needs_download without the size comparison.
NeedsDownloadNoSize(folder, file_info) ==
    LET meta == _get_file_metadata(file_info.id)
        full_local_path == LocalPath(folder, file_info)
    IN IF ~PathExists(full_local_path) THEN TRUE
       ELSE meta.md5 # NoMd5 /\ MD5(ReadFile(full_local_path)) # meta.md5

\* _needs_download without the hash comparison.
NeedsDownloadNoHash(folder, file_info) ==
    LET meta == _get_file_metadata(file_info.id)
        full_local_path == LocalPath(folder, file_info)
    IN IF ~PathExists(full_local_path) THEN TRUE
       ELSE GetSize(full_local_path) # meta.size

\* _needs_download that compares the hashes even when the remote reports
\* none.
NeedsDownloadHashAlways(folder, file_info) ==
    LET meta == _get_file_metadata(file_info.id)
        full_local_path == LocalPath(folder, file_info)
    IN IF ~PathExists(full_local_path) THEN TRUE
       ELSE IF GetSize(full_local_path) # meta.size THEN TRUE
       ELSE MD5(ReadFile(full_local_path)) # meta.md5

_needs_download(folder, file_info) ==
    LET meta == _get_file_metadata(file_info.id)
        drive_size == meta.size
        drive_md5 == meta.md5
        full_local_path == LocalPath(folder, file_info)
    IN IF ~PathExists(full_local_path) THEN TRUE
       ELSE IF GetSize(full_local_path) # drive_size THEN TRUE
       ELSE IF drive_md5 # NoMd5 /\ MD5(ReadFile(full_local_path)) # drive_md5 THEN TRUE
       ELSE FALSE

\* A hash computed before the size comparison: the file is read whenever it
\* exists.
ReadsLocalWheneverExists(folder, file_info) ==
    PathExists(LocalPath(folder, file_info))

\* Whether _needs_download reaches its open(full_local_path, 'rb').
ReadsLocal(folder, file_info) ==
    LET meta == _get_file_metadata(file_info.id)
        full_local_path == LocalPath(folder, file_info)
    IN IF ~PathExists(full_local_path) THEN FALSE
       ELSE IF GetSize(full_local_path) # meta.size THEN FALSE
       ELSE meta.md5 # NoMd5

\* ------------------------------------------------------------------ the run
EmptyFn == [x \in {} |-> 0]
NoFile == [id |-> 0, loc |-> <<>>]
NoPrev == [ok |-> FALSE, quiet |-> FALSE, synced |-> {}, interrupted |-> NoFile,
           remote |-> EmptyFn, deleted |-> {}, truncated |-> {}]

\* ------------------------------------------------------------------ chat store values
MaxOps == 4        \* calls on the chat store
MaxMsgs == 2       \* longest message list given to set_messages
MaxSessions == 2   \* database sessions that can be open at once

Keys == {"k1"}
MsgContents == {"", "a"}
Roles == {"user", "assistant"}
Msgs == [role : Roles, content : MsgContents]
MsgLists == UNION {[1..n -> Msgs] : n \in 0..MaxMsgs}
Sessions == 1..MaxSessions

\* A nullable column holds <<>> (NULL) or <<value>>.
Null == <<>>
Row(id, key, user_input, response) ==
    [id |-> id, chat_store_key |-> key, user_input |-> user_input, response |-> response]

IdleCall == [pc |-> "idle", key |-> "", content |-> "", row |-> None]
NoCall == [op |-> "none", key |-> "", arg |-> <<>>, before |-> <<>>, ret |-> <<>>]

\* The table _initialize creates, and no call in progress.
InitStore ==
    /\ table = <<>>
    /\ next_id = 1
    /\ sess = [s \in Sessions |-> IdleCall]
    /\ ops = 0
    /\ added = [key \in Keys |-> <<>>]
    /\ onlyAdds = [key \in Keys |-> TRUE]
    /\ sequential = TRUE
    /\ lastCall = NoCall

\* ------------------------------------------------------------------ credential values
\* What an environment variable can hold: nothing (unset or empty), text
\* that is not JSON, or a JSON document.
Unset == "unset"
BadJson == "not json"

\* The client secrets: a JSON document with or without a client_id.
ClientSecrets == {"no client_id", "client"}

\* An authorized-user token: whether it holds an access token, whether that
\* is past its expiry, and whether it holds a refresh token.
Tokens == [token : BOOLEAN, expired : BOOLEAN, refresh_token : BOOLEAN]

\* Credentials.valid
Valid(creds) == creds.token /\ ~creds.expired

\* creds.refresh(Request()), when the token server grants it.
Refreshed(creds) == [creds EXCEPT !.token = TRUE, !.expired = FALSE]

NoToken == [token |-> FALSE, expired |-> FALSE, refresh_token |-> FALSE]

\* The TOKEN variable: unset, not JSON, or the JSON of a token.
EnvTokens ==
    {[kind |-> Unset, data |-> NoToken], [kind |-> BadJson, data |-> NoToken]}
        \cup {[kind |-> "json", data |-> t] : t \in Tokens}

CredInputs ==
    [CREDENTIALS : {Unset, BadJson} \cup ClientSecrets,
     TOKEN : EnvTokens,
     credentials_json : BOOLEAN,
     token_json : {<<>>} \cup {<<t>> : t \in Tokens},
     refresh_granted : BOOLEAN]

NoCredCall == [state |-> "none", error |-> "", creds |-> <<>>, refreshed |-> FALSE]

\* A process in which the credentials are not asked for.
InitNoCredentials ==
    /\ cred_in = [CREDENTIALS |-> Unset, TOKEN |-> [kind |-> Unset, data |-> NoToken],
                  credentials_json |-> FALSE,
                  token_json |-> <<>>, refresh_granted |-> FALSE]
    /\ token_json = <<>>
    /\ cred_result = NoCredCall

\* The GoogleDriveDownloader instance after __init__, and the machine it
\* runs on.
InitDrive ==
    /\ remote = EmptyFn
    /\ disk = EmptyFn
    /\ dirs = Prefixes(InitialCwd)
    /\ cwd = InitialCwd
    /\ service = FALSE
    /\ local_folder \in LocalFolderArgs
    /\ pc = "idle"
    /\ all_files = <<>>
    /\ i = 0
    /\ files_to_download = <<>>
    /\ total_size_to_download = 0
    /\ old_cwd = <<>>
    /\ k = 0
    /\ previous_progress = 0
    /\ progress_n = 0
    /\ result = "none"
    /\ runs = 0
    /\ envCount = 0
    /\ startCwd = InitialCwd
    /\ decided = <<>>
    /\ opened = <<>>
    /\ fsTouched = FALSE
    /\ lateCall = FALSE
    /\ failedAt = "none"
    /\ changedInRun = FALSE
    /\ prev = NoPrev
    /\ remoteAtStart = EmptyFn
    /\ deleted = {}
    /\ truncated = {}

Init ==
    /\ InitStore
    /\ InitNoCredentials
    /\ InitDrive

envVars == <<envCount, changedInRun, remoteAtStart, deleted, truncated>>
machine == <<disk, dirs, cwd>>
planVars == <<all_files, i, files_to_download, total_size_to_download>>
loadVars == <<old_cwd, k, previous_progress, progress_n>>

\* The run ends: it returns ("ok") or an exception leaves it ("error").
EndRun(how, at) ==
    /\ pc' = "idle"
    /\ result' = how
    /\ failedAt' = at
    /\ UNCHANGED <<prev, envVars>>

\* StartRun without "if not self.service: self.authenticate()".
StartRunNoAuthenticate ==
    /\ pc = "idle"
    /\ runs < MaxRuns
    /\ runs' = runs + 1
    /\ pc' = "list"
    /\ result' = "running"
    /\ all_files' = <<>>
    /\ i' = 0
    /\ files_to_download' = <<>>
    /\ total_size_to_download' = 0
    /\ old_cwd' = <<>>
    /\ k' = 0
    /\ previous_progress' = 0
    /\ progress_n' = 0
    /\ startCwd' = cwd
    /\ decided' = <<>>
    /\ opened' = <<>>
    /\ fsTouched' = FALSE
    /\ lateCall' = FALSE
    /\ failedAt' = "none"
    /\ changedInRun' = FALSE
    /\ prev' = [ok |-> result = "ok",
                quiet |-> ~changedInRun,
                synced |-> IF result = "ok"
                           THEN {decided[n].loc : n \in 1..Len(decided)} ELSE {},
                interrupted |-> IF failedAt = "chunk" THEN opened[Len(opened)] ELSE NoFile,
                remote |-> remoteAtStart,
                deleted |-> deleted, truncated |-> truncated]
    /\ remoteAtStart' = remote
    /\ deleted' = {}
    /\ truncated' = {}
    /\ UNCHANGED <<remote, machine, service, local_folder, envCount>>
    /\ UNCHANGED chatVars
    /\ UNCHANGED credVars

\* download_from_folder is called.
StartRun ==
    /\ pc = "idle"
    /\ runs < MaxRuns
    /\ runs' = runs + 1
    /\ pc' = IF service THEN "list" ELSE "auth"
    /\ result' = "running"
    /\ all_files' = <<>>
    /\ i' = 0
    /\ files_to_download' = <<>>
    /\ total_size_to_download' = 0
    /\ old_cwd' = <<>>
    /\ k' = 0
    /\ previous_progress' = 0
    /\ progress_n' = 0
    /\ startCwd' = cwd
    /\ decided' = <<>>
    /\ opened' = <<>>
    /\ fsTouched' = FALSE
    /\ lateCall' = FALSE
    /\ failedAt' = "none"
    /\ changedInRun' = FALSE
    /\ prev' = [ok |-> result = "ok",
                quiet |-> ~changedInRun,
                synced |-> IF result = "ok"
                           THEN {decided[n].loc : n \in 1..Len(decided)} ELSE {},
                interrupted |-> IF failedAt = "chunk" THEN opened[Len(opened)] ELSE NoFile,
                remote |-> remoteAtStart,
                deleted |-> deleted, truncated |-> truncated]
    /\ remoteAtStart' = remote
    /\ deleted' = {}
    /\ truncated' = {}
    /\ UNCHANGED <<remote, machine, service, local_folder, envCount>>
    /\ UNCHANGED chatVars
    /\ UNCHANGED credVars

\* self.authenticate() returns.
authenticate ==
    /\ pc = "auth"
    /\ service' = TRUE
    /\ pc' = "list"
    /\ UNCHANGED <<remote, machine, local_folder, planVars, loadVars, result, runs,
                   envVars, startCwd, decided, opened, fsTouched, lateCall, failedAt, prev>>
    /\ UNCHANGED chatVars
    /\ UNCHANGED credVars

\* The kind of call the run waits for at pc.
CallAt(at) ==
    IF at = "auth" THEN "auth"
    ELSE IF at \in {"list", "check", "size"} THEN "remote"
    ELSE "chunk"

\* A remote call (authentication, listing, metadata, chunk) raises, or the
\* run is cancelled while it waits for one: the exception leaves
\* download_from_folder.  The locals of a run that stops before its
\* transfers are dropped with its frame.
Fail ==
    /\ \/ pc \in {"auth", "list", "size", "chunk"}
       \/ pc = "check" /\ i <= Len(all_files)
    /\ EndRun("error", CallAt(pc))
    /\ IF pc = "chunk"
       THEN UNCHANGED <<planVars, decided>>
       ELSE /\ all_files' = <<>>
            /\ i' = 0
            /\ files_to_download' = <<>>
            /\ total_size_to_download' = 0
            /\ decided' = <<>>
    /\ UNCHANGED <<remote, machine, service, local_folder, loadVars, runs,
                   startCwd, opened, fsTouched, lateCall>>
    /\ UNCHANGED chatVars
    /\ UNCHANGED credVars

\* ListFiles with os.makedirs(local_folder) done before the listing.
ListFilesMakedirsFirst ==
    /\ pc = "list"
    /\ dirs' = dirs \cup Prefixes(Resolve(cwd, local_folder))
    /\ all_files' = FilterFiles(_get_all_items_recursively(RootId, EmptyPath))
    /\ i' = 1
    /\ pc' = "check"
    /\ lateCall' = (lateCall \/ fsTouched)
    /\ UNCHANGED <<remote, disk, cwd, service, local_folder, files_to_download,
                   total_size_to_download, loadVars, result, runs, envVars, startCwd,
                   decided, opened, fsTouched, failedAt, prev>>
    /\ UNCHANGED chatVars
    /\ UNCHANGED credVars

\* all_items = self._get_all_items_recursively(drive_folder_id), and the filter.
ListFiles ==
    /\ pc = "list"
    /\ all_files' = FilterFiles(_get_all_items_recursively(RootId, EmptyPath))
    /\ i' = 1
    /\ pc' = "check"
    /\ lateCall' = (lateCall \/ fsTouched)
    /\ UNCHANGED <<remote, machine, service, local_folder, files_to_download,
                   total_size_to_download, loadVars, result, runs, envVars, startCwd,
                   decided, opened, fsTouched, failedAt, prev>>
    /\ UNCHANGED chatVars
    /\ UNCHANGED credVars

\* What the decision for all_files[i] was taken on.
Decision(info, needs) ==
    LET loc == Resolve(cwd, LocalPath(local_folder, info))
    IN [id |-> info.id,
        needs |-> needs,
        data |-> FilesGet(info.id),
        meta |-> _get_file_metadata(info.id),
        loc |-> loc,
        local |-> IF loc \in DOMAIN disk THEN <<disk[loc]>> ELSE <<>>,
        read |-> ReadsLocal(local_folder, info),
        planned |-> -1]

\* if self._needs_download(local_folder, info)
CheckFile ==
    /\ pc = "check"
    /\ i <= Len(all_files)
    /\ LET info == all_files[i]
           needs == _needs_download(local_folder, info)
       IN /\ decided' = Append(decided, Decision(info, needs))
          /\ IF needs
             THEN pc' = "size" /\ i' = i
             ELSE pc' = "check" /\ i' = i + 1
    /\ lateCall' = (lateCall \/ fsTouched)
    /\ UNCHANGED <<remote, machine, service, local_folder, all_files, files_to_download,
                   total_size_to_download, loadVars, result, runs, envVars, startCwd,
                   opened, fsTouched, failedAt, prev>>
    /\ UNCHANGED chatVars
    /\ UNCHANGED credVars

\* drive_size, _, _ = self._get_file_metadata(info['id']) and the two updates.
AddToPlan ==
    /\ pc = "size"
    /\ LET info == all_files[i]
           drive_size == _get_file_metadata(info.id).size
       IN /\ total_size_to_download' = total_size_to_download + drive_size
          /\ files_to_download' = Append(files_to_download, info)
          /\ decided' = [decided EXCEPT ![Len(decided)].planned = drive_size]
    /\ i' = i + 1
    /\ pc' = "check"
    /\ lateCall' = (lateCall \/ fsTouched)
    /\ UNCHANGED <<remote, machine, service, local_folder, all_files, loadVars, result,
                   runs, envVars, startCwd, opened, fsTouched, failedAt, prev>>
    /\ UNCHANGED chatVars
    /\ UNCHANGED credVars

\* Plan with os.makedirs(local_folder) and os.chdir(local_folder) done before
\* the test of files_to_download.
PlanMakedirsFirst ==
    /\ pc = "check"
    /\ i > Len(all_files)
    /\ dirs' = dirs \cup Prefixes(Resolve(cwd, local_folder))
    /\ old_cwd' = cwd
    /\ fsTouched' = TRUE
    /\ IF files_to_download = <<>>
       THEN /\ EndRun("ok", "none")
            /\ UNCHANGED <<disk, cwd, k>>
       ELSE /\ cwd' = Resolve(cwd, local_folder)
            /\ k' = 1
            /\ pc' = "download"
            /\ UNCHANGED <<disk, result, failedAt, prev, envVars>>
    /\ UNCHANGED <<remote, service, local_folder, planVars, previous_progress, progress_n,
                   runs, startCwd, decided, opened, lateCall>>
    /\ UNCHANGED chatVars
    /\ UNCHANGED credVars

\* The end of the diff loop: return if nothing is planned, otherwise
\* os.makedirs(local_folder), old_cwd = os.getcwd(), os.chdir(local_folder).
Plan ==
    /\ pc = "check"
    /\ i > Len(all_files)
    /\ IF files_to_download = <<>>
       THEN /\ EndRun("ok", "none")
            /\ UNCHANGED <<machine, old_cwd, k, fsTouched>>
       ELSE /\ dirs' = dirs \cup Prefixes(Resolve(cwd, local_folder))
            /\ old_cwd' = cwd
            /\ cwd' = Resolve(cwd, local_folder)
            /\ k' = 1
            /\ pc' = "download"
            /\ fsTouched' = TRUE
            /\ UNCHANGED <<disk, result, failedAt, prev, envVars>>
    /\ UNCHANGED <<remote, service, local_folder, planVars, previous_progress, progress_n,
                   runs, startCwd, decided, opened, lateCall>>
    /\ UNCHANGED chatVars
    /\ UNCHANGED credVars

\* file_path of _download_single_file
DownloadPath(relative_path, file_name) == Join(relative_path, file_name)

\* _download_single_file up to the first next_chunk: the directories are
\* made and the destination is opened 'wb', which empties it.
OpenFile ==
    /\ pc = "download"
    /\ k <= Len(files_to_download)
    /\ LET file_info == files_to_download[k]
           file_path == DownloadPath(file_info.path, file_info.name)
           dir_name == Dirname(file_path)
           loc == Resolve(cwd, file_path)
       IN /\ dirs' = dirs \cup Prefixes(Resolve(cwd, dir_name))
          /\ disk' = [l \in (DOMAIN disk) \cup {loc} |-> IF l = loc THEN <<>> ELSE disk[l]]
          /\ opened' = Append(opened, [id |-> file_info.id, loc |-> loc])
    /\ previous_progress' = 0
    /\ pc' = "chunk"
    /\ UNCHANGED <<remote, cwd, service, local_folder, planVars, old_cwd, k, progress_n,
                   result, runs, envVars, startCwd, decided, fsTouched, lateCall,
                   failedAt, prev>>
    /\ UNCHANGED chatVars
    /\ UNCHANGED credVars

\* NextChunk with progress_bar.update(current_progress): the cumulative
\* value instead of the difference.
NextChunkCumulative ==
    /\ pc = "chunk"
    /\ LET file_info == files_to_download[k]
           content == remote[file_info.id].content
           loc == opened[Len(opened)].loc
           current_progress == Min(previous_progress + ChunkSize, Len(content))
           done == current_progress = Len(content)
       IN /\ disk' = [disk EXCEPT ![loc] =
                         disk[loc] \o SubSeq(content, previous_progress + 1, current_progress)]
          /\ previous_progress' = current_progress
          /\ progress_n' = progress_n + current_progress
          /\ IF done
             THEN pc' = "download" /\ k' = k + 1
             ELSE pc' = "chunk" /\ k' = k
    /\ UNCHANGED <<remote, dirs, cwd, service, local_folder, planVars, old_cwd, result,
                   runs, envVars, startCwd, decided, opened, fsTouched, lateCall,
                   failedAt, prev>>
    /\ UNCHANGED chatVars
    /\ UNCHANGED credVars

\* One turn of the chunk loop: next_chunk writes the next ChunkSize bytes and
\* reports the cumulative progress; the bar is advanced by the difference.
NextChunk ==
    /\ pc = "chunk"
    /\ LET file_info == files_to_download[k]
           content == remote[file_info.id].content
           loc == opened[Len(opened)].loc
           current_progress == Min(previous_progress + ChunkSize, Len(content))
           done == current_progress = Len(content)
           chunk_downloaded == current_progress - previous_progress
       IN /\ disk' = [disk EXCEPT ![loc] =
                         disk[loc] \o SubSeq(content, previous_progress + 1, current_progress)]
          /\ previous_progress' = current_progress
          /\ progress_n' = progress_n + chunk_downloaded
          /\ IF done
             THEN pc' = "download" /\ k' = k + 1
             ELSE pc' = "chunk" /\ k' = k
    /\ UNCHANGED <<remote, dirs, cwd, service, local_folder, planVars, old_cwd, result,
                   runs, envVars, startCwd, decided, opened, fsTouched, lateCall,
                   failedAt, prev>>
    /\ UNCHANGED chatVars
    /\ UNCHANGED credVars

\* progress_bar.close(), os.chdir(old_cwd), and the return.
Finish ==
    /\ pc = "download"
    /\ k > Len(files_to_download)
    /\ cwd' = old_cwd
    /\ EndRun("ok", "none")
    /\ UNCHANGED <<remote, disk, dirs, service, local_folder, planVars, loadVars, runs,
                   startCwd, decided, opened, fsTouched, lateCall>>
    /\ UNCHANGED chatVars
    /\ UNCHANGED credVars

\* ------------------------------------------------------------------ environment
EnvStep ==
    /\ envCount < MaxEnv
    /\ envCount' = envCount + 1
    /\ changedInRun' = (changedInRun \/ pc # "idle")

runVars == <<service, local_folder, pc, planVars, loadVars, result, runs, startCwd,
             decided, opened, fsTouched, lateCall, failedAt, prev>>

\* Someone adds a file to the remote tree.  A file added during a run, after
\* the listing, is not seen by that run: it is as if added after it.
RemoteAdd ==
    /\ pc = "idle"
    /\ EnvStep
    /\ \E f \in FileIds \ DOMAIN remote, at \in Placements, content \in Contents,
          hasSize \in BOOLEAN, hasMd5 \in BOOLEAN :
          /\ \A g \in FileIds \ DOMAIN remote : f <= g
          /\ remote' = [g \in (DOMAIN remote) \cup {f} |->
                          IF g = f
                          THEN [name |-> at.name, parent |-> at.parent, content |-> content,
                                hasSize |-> hasSize, hasMd5 |-> hasMd5]
                          ELSE remote[g]]
    /\ UNCHANGED <<machine, runVars, remoteAtStart, deleted, truncated>>
    /\ UNCHANGED chatVars
    /\ UNCHANGED credVars

\* Someone replaces the content of a remote file: between two runs, between
\* the two metadata calls for a file, or between the diff and a transfer.
RemoteModify ==
    /\ pc \in {"idle", "size", "download"}
    /\ EnvStep
    /\ \E f \in DOMAIN remote, content \in Contents :
          /\ content # remote[f].content
          /\ remote' = [remote EXCEPT ![f].content = content]
    /\ UNCHANGED <<machine, runVars, remoteAtStart, deleted, truncated>>
    /\ UNCHANGED chatVars
    /\ UNCHANGED credVars

\* Someone deletes a local file between two runs.
LocalDelete ==
    /\ pc = "idle"
    /\ EnvStep
    /\ \E loc \in DOMAIN disk :
          /\ disk' = [l \in (DOMAIN disk) \ {loc} |-> disk[l]]
          /\ deleted' = deleted \cup {loc}
    /\ UNCHANGED <<remote, dirs, cwd, runVars, remoteAtStart, truncated>>
    /\ UNCHANGED chatVars
    /\ UNCHANGED credVars

\* Someone truncates a local file between two runs.
LocalTruncate ==
    /\ pc = "idle"
    /\ EnvStep
    /\ \E loc \in DOMAIN disk :
          \E n \in 0..(Len(disk[loc]) - 1) :
             /\ disk' = [disk EXCEPT ![loc] = SubSeq(disk[loc], 1, n)]
             /\ truncated' = truncated \cup {loc}
    /\ UNCHANGED <<remote, dirs, cwd, runVars, remoteAtStart, deleted>>
    /\ UNCHANGED chatVars
    /\ UNCHANGED credVars

Next ==
    \/ StartRun
    \/ authenticate
    \/ Fail
    \/ ListFiles
    \/ CheckFile
    \/ AddToPlan
    \/ Plan
    \/ OpenFile
    \/ NextChunk
    \/ Finish
    \/ RemoteAdd
    \/ RemoteModify
    \/ LocalDelete
    \/ LocalTruncate

Spec == Init /\ [][Next]_vars

\* ------------------------------------------------------------------ chat store
\* SELECT ... WHERE chat_store_key = :key ORDER BY id
RowsOf(tbl, key) == SelectSeq(tbl, LAMBDA r : r.chat_store_key = key)

\* The loop of get_messages over the selected rows.
RECURSIVE MessagesOf(_)
MessagesOf(rows) ==
    IF rows = <<>> THEN <<>>
    ELSE LET user_in == Head(rows).user_input
             resp == Head(rows).response
         IN (IF user_in # Null THEN <<[role |-> "user", content |-> user_in[1]]>> ELSE <<>>)
            \o (IF resp # Null THEN <<[role |-> "assistant", content |-> resp[1]]>> ELSE <<>>)
            \o MessagesOf(Tail(rows))

get_messages(key) == MessagesOf(RowsOf(table, key))

\* A DELETE that removes no row.
DeleteNothing(tbl, key) == tbl

\* DELETE FROM table WHERE chat_store_key = :key
DeleteWhereKey(tbl, key) == SelectSeq(tbl, LAMBDA r : r.chat_store_key # key)

\* UPDATE table SET response = :resp WHERE id = :id
UpdateResponse(tbl, id, resp) ==
    [n \in DOMAIN tbl |-> IF tbl[n].id = id THEN [tbl[n] EXCEPT !.response = resp]
                                            ELSE tbl[n]]

\* The loop of set_messages over the messages still to insert.
RECURSIVE Reinsert(_, _, _, _, _)
Reinsert(tbl, nid, current_id, key, messages) ==
    IF messages = <<>> THEN [table |-> tbl, next_id |-> nid]
    ELSE LET msg == Head(messages)
         IN IF msg.role = "user"
            THEN Reinsert(Append(tbl, Row(nid, key, <<msg.content>>, Null)),
                          nid + 1, nid, key, Tail(messages))
            ELSE IF current_id # None
            THEN Reinsert(UpdateResponse(tbl, current_id, <<msg.content>>),
                          nid, None, key, Tail(messages))
            ELSE Reinsert(Append(tbl, Row(nid, key, Null, <<msg.content>>)),
                          nid + 1, None, key, Tail(messages))

\* A call starts: it is counted, and noted if another call is in progress.
StartCall ==
    /\ ops < MaxOps
    /\ ops' = ops + 1
    /\ sequential' = (sequential /\ \A s \in Sessions : sess[s].pc = "idle")

Returned(op, key, arg, ret) ==
    lastCall' = [op |-> op, key |-> key, arg |-> arg, before |-> get_messages(key),
                 ret |-> ret]

Committed(op, key, arg) ==
    lastCall' = [op |-> op, key |-> key, arg |-> arg, before |-> get_messages(key),
                 ret |-> Null]

\* set_messages(key, messages): one transaction.
set_messages ==
    /\ StartCall
    /\ \E key \in Keys, messages \in MsgLists :
          LET r == Reinsert(DeleteWhereKey(table, key), next_id, None, key, messages)
          IN /\ table' = r.table
             /\ next_id' = r.next_id
             /\ onlyAdds' = [onlyAdds EXCEPT ![key] = FALSE]
             /\ Committed("set", key, messages)
    /\ UNCHANGED <<sess, added>>
    /\ UNCHANGED driveVars
    /\ UNCHANGED credVars

\* add_message(key, message) with a user message: one INSERT, committed.
add_message_user ==
    /\ StartCall
    /\ \E key \in Keys, content \in MsgContents :
          /\ table' = Append(table, Row(next_id, key, <<content>>, Null))
          /\ added' = [added EXCEPT ![key] = Append(@, [role |-> "user", content |-> content])]
          /\ Committed("add", key, <<[role |-> "user", content |-> content]>>)
    /\ next_id' = next_id + 1
    /\ UNCHANGED <<sess, onlyAdds>>
    /\ UNCHANGED driveVars
    /\ UNCHANGED credVars

\* add_message(key, message) with an assistant message, up to the SELECT of
\* the last row of the key that has a question and no answer.
add_message_select ==
    /\ StartCall
    /\ \E s \in Sessions, key \in Keys, content \in MsgContents :
          /\ sess[s].pc = "idle"
          /\ LET pending == SelectSeq(RowsOf(table, key),
                                      LAMBDA r : r.user_input # Null /\ r.response = Null)
                 row == IF pending = <<>> THEN None ELSE pending[Len(pending)].id
             IN sess' = [sess EXCEPT ![s] = [pc |-> "selected", key |-> key,
                                             content |-> content, row |-> row]]
    /\ UNCHANGED <<table, next_id, added, onlyAdds, lastCall>>
    /\ UNCHANGED driveVars
    /\ UNCHANGED credVars

\* The rest of that add_message: the UPDATE of the selected row, or the
\* INSERT of a new one, and the commit.
add_message_write ==
    /\ \E s \in Sessions :
          /\ sess[s].pc = "selected"
          /\ LET c == sess[s]
             IN /\ IF c.row # None
                   THEN /\ table' = UpdateResponse(table, c.row, <<c.content>>)
                        /\ next_id' = next_id
                   ELSE /\ table' = Append(table, Row(next_id, c.key, Null, <<c.content>>))
                        /\ next_id' = next_id + 1
                /\ added' = [added EXCEPT ![c.key] =
                                Append(@, [role |-> "assistant", content |-> c.content])]
                /\ Committed("add", c.key, <<[role |-> "assistant", content |-> c.content]>>)
          /\ sess' = [sess EXCEPT ![s] = IdleCall]
    /\ UNCHANGED <<ops, onlyAdds, sequential>>
    /\ UNCHANGED driveVars
    /\ UNCHANGED credVars

\* Python's truth value of a column read from a row: None and the empty
\* string are false.
Truthy(col) == col # Null /\ col[1] # ""

\* DELETE FROM table WHERE id = :id
DeleteWhereId(tbl, id) == SelectSeq(tbl, LAMBDA r : r.id # id)

\* delete_last_message(key): one transaction on the last row of the key.
delete_last_message ==
    /\ StartCall
    /\ \E key \in Keys :
          LET rows == RowsOf(table, key)
              row == rows[Len(rows)]
              user_in == row.user_input
              resp == row.response
          IN /\ IF rows = <<>>
                THEN /\ table' = table
                     /\ Returned("delete_last", key, <<>>, Null)
                ELSE IF Truthy(user_in) /\ Truthy(resp)
                THEN /\ table' = UpdateResponse(table, row.id, Null)
                     /\ Returned("delete_last", key, <<>>,
                                 <<[role |-> "assistant", content |-> resp[1]]>>)
                ELSE /\ table' = DeleteWhereId(table, row.id)
                     /\ Returned("delete_last", key, <<>>,
                                 IF Truthy(user_in)
                                 THEN <<[role |-> "user", content |-> user_in[1]]>>
                                 ELSE IF Truthy(resp)
                                 THEN <<[role |-> "assistant", content |-> resp[1]]>>
                                 ELSE Null)
             /\ onlyAdds' = [onlyAdds EXCEPT ![key] = FALSE]
    /\ UNCHANGED <<next_id, sess, added>>
    /\ UNCHANGED driveVars
    /\ UNCHANGED credVars

\* list.pop with the wrong index: the last element instead of idx.
PopLast(messages, idx) == SubSeq(messages, 1, Len(messages) - 1)

\* messages.pop(idx), idx counted from 0
Pop(messages, idx) ==
    SubSeq(messages, 1, idx) \o SubSeq(messages, idx + 2, Len(messages))

\* delete_message(key, idx): get_messages, then set_messages without the
\* message at idx.
delete_message ==
    /\ StartCall
    /\ \E key \in Keys :
          \E idx \in (0 - 1)..Len(get_messages(key)) :
             LET messages == get_messages(key)
             IN IF idx < 0 \/ idx >= Len(messages)
                THEN /\ UNCHANGED <<table, next_id, onlyAdds>>
                     /\ Returned("delete", key, <<idx>>, Null)
                ELSE LET removed == messages[idx + 1]
                         r == Reinsert(DeleteWhereKey(table, key), next_id, None, key,
                                       Pop(messages, idx))
                     IN /\ table' = r.table
                        /\ next_id' = r.next_id
                        /\ onlyAdds' = [onlyAdds EXCEPT ![key] = FALSE]
                        /\ Returned("delete", key, <<idx>>, <<removed>>)
    /\ UNCHANGED <<sess, added>>
    /\ UNCHANGED driveVars
    /\ UNCHANGED credVars

NextChatStore ==
    \/ set_messages
    \/ add_message_user
    \/ add_message_select
    \/ add_message_write
    \/ delete_last_message
    \/ delete_message

\* The chat store alone, in a process that runs no synchronisation.
InitChatStore == Init /\ local_folder = Rel(<<"out">>)

SpecChatStore == InitChatStore /\ [][NextChatStore]_vars

\* ------------------------------------------------------------------ credentials
\* token.json written whatever the token was read from.
SavesTokenAlways(env_token) == TRUE

\* if not env_token: the refreshed token is saved only if it was read from
\* the disk.
SavesToken(env_token) == env_token.kind = Unset

Raises(error) ==
    /\ cred_result' = [state |-> "raised", error |-> error, creds |-> <<>>,
                       refreshed |-> FALSE]
    /\ UNCHANGED token_json

Returns(creds, refreshed) ==
    cred_result' = [state |-> "returned", error |-> "", creds |-> <<creds>>,
                    refreshed |-> refreshed]

_get_credentials_from_env_or_file ==
    /\ cred_result.state = "none"
    /\ LET env_credentials == cred_in.CREDENTIALS
           env_token == cred_in.TOKEN
       IN IF env_credentials # Unset /\ env_credentials = BadJson
          THEN Raises("ValueError")
          ELSE IF env_credentials # Unset /\ env_credentials = "no client_id"
          THEN Raises("ValueError")
          ELSE IF env_credentials = Unset /\ ~cred_in.credentials_json
          THEN Raises("FileNotFoundError")
          ELSE IF env_token.kind # Unset /\ env_token.kind = BadJson
          THEN Raises("ValueError")
          ELSE IF env_token.kind = Unset /\ token_json = <<>>
          THEN Raises("FileNotFoundError")
          ELSE LET token_data == IF env_token.kind # Unset THEN env_token.data
                                 ELSE token_json[1]
                   creds == token_data
               IN IF Valid(creds)
                  THEN Returns(creds, FALSE) /\ UNCHANGED token_json
                  ELSE IF creds.expired /\ creds.refresh_token
                  THEN IF ~cred_in.refresh_granted
                       THEN Raises("RefreshError")
                       ELSE /\ token_json' = IF SavesToken(env_token)
                                             THEN <<Refreshed(creds)>> ELSE token_json
                            /\ Returns(Refreshed(creds), TRUE)
                  ELSE Raises("RuntimeError")
    /\ UNCHANGED <<cred_in, driveVars, chatVars>>

NextCredentials == _get_credentials_from_env_or_file

\* One call of _get_credentials_from_env_or_file, in every environment.
InitCredentials ==
    /\ InitStore
    /\ InitDrive
    /\ local_folder = Rel(<<"out">>)
    /\ cred_in \in CredInputs
    /\ token_json = cred_in.token_json
    /\ cred_result = NoCredCall

SpecCredentials == InitCredentials /\ [][NextCredentials]_vars

\* ------------------------------------------------------------------ properties
Decisions == {decided[n] : n \in 1..Len(decided)}

\* What the remote reported for a decision.
SuppliesHash(d) == "md5Checksum" \in DOMAIN d.data
RemoteSize(d) == IF "size" \in DOMAIN d.data THEN d.data.size ELSE 0

\* The four ordered rules of the change detector.
Reason(d) ==
    IF d.local = <<>> THEN "Missing"
    ELSE IF Len(d.local[1]) # RemoteSize(d) THEN "SizeMismatch"
    ELSE IF SuppliesHash(d) /\ MD5(d.local[1]) # d.data.md5Checksum THEN "HashMismatch"
    ELSE "UpToDate"

\* C5: whenever _needs_download returned False, a local file existed at the
\* derived path with the size the remote reported (0 when it reported none)
\* and, when the remote supplied a hash, with that MD5.
C5_UpToDateImpliesIdentical ==
    \A d \in Decisions :
        ~d.needs =>
            /\ d.local # <<>>
            /\ Len(d.local[1]) = RemoteSize(d)
            /\ SuppliesHash(d) => MD5(d.local[1]) = d.data.md5Checksum

\* A file with a reported hash was found up to date.
C5_Witness ==
    \E d \in Decisions : ~d.needs /\ SuppliesHash(d) /\ Len(d.local[1]) > 0

\* C6: the result of _needs_download is True exactly when the first of the
\* rules Missing, SizeMismatch, HashMismatch applies, and False (UpToDate)
\* when none does.
C6_FourOrderedRules ==
    \A d \in Decisions : d.needs = (Reason(d) # "UpToDate")

\* One run met a hash mismatch, and a file whose content differs from the
\* remote's was found up to date because the remote supplied no hash.
C6_Witness ==
    /\ \E d \in Decisions : Reason(d) = "HashMismatch"
    /\ \E d \in Decisions :
          /\ Reason(d) = "UpToDate"
          /\ ~SuppliesHash(d)
          /\ d.local[1] # remote[d.id].content

\* The run before this one completed, and the environment changed nothing
\* from its start to the start of this run, nor since.
AfterCompletedRun == prev.ok /\ prev.quiet
NothingChanged ==
    /\ prev.remote = remoteAtStart
    /\ prev.deleted = {} /\ prev.truncated = {}
    /\ ~changedInRun

\* The diff phase of this run is over: files_to_download is final.
PlanFixed ==
    \/ pc \in {"download", "chunk"}
    \/ pc = "check" /\ i > Len(all_files)
    \/ pc = "idle" /\ result = "ok"

TransferSet == {files_to_download[n].id : n \in 1..Len(files_to_download)}

\* Every remote file reports its size and its hash, as Drive does for files
\* with binary content.
AllOrdinary == \A f \in DOMAIN remote : remote[f].hasSize /\ remote[f].hasMd5

\* C1: a run that follows a completed run, with the remote tree and the
\* local files unchanged in between, plans no file, transfers no byte and
\* opens no local file for writing.  The claim is for every remote tree; it
\* is stated here for the trees whose files all report size and hash.
C1_Idempotent ==
    (AllOrdinary /\ AfterCompletedRun /\ NothingChanged /\ PlanFixed) =>
        /\ files_to_download = <<>>
        /\ progress_n = 0
        /\ opened = <<>>

\* The remote files added, and those whose content was modified, between
\* the start of the previous run and the start of this one.
Added == (DOMAIN remoteAtStart) \ DOMAIN prev.remote
Modified ==
    {f \in (DOMAIN remoteAtStart) \cap DOMAIN prev.remote :
        remoteAtStart[f].content # prev.remote[f].content}

\* C2: after a completed run, with files only added to or modified on the
\* remote and the local files untouched, the transfer set of the next run
\* is exactly the set of the added and the modified files.  The claim is for
\* every remote tree; it is stated here for the trees whose files all report
\* size and hash.
C2_ExactTransferSet ==
    ( /\ AllOrdinary
      /\ AfterCompletedRun
      /\ prev.deleted = {} /\ prev.truncated = {}
      /\ ~changedInRun
      /\ PlanFixed )
    => TransferSet = Added \cup Modified

\* The local file at loc was left in sync by the previous, completed run and
\* then deleted or truncated.
Synced(loc) == prev.ok /\ loc \in prev.synced
Tampered(loc) == Synced(loc) /\ loc \in prev.deleted \cup prev.truncated

C4_PartialNeverUpToDate ==
    \A d \in Decisions :
        ( /\ prev.interrupted # NoFile
          /\ d.id = prev.interrupted.id
          /\ d.loc = prev.interrupted.loc
          /\ d.local # <<>>
          /\ Len(d.local[1]) < Len(remote[d.id].content) )
        => d.needs

\* The last run returned.
Completed == pc = "idle" /\ result = "ok"

Planned == SelectSeq(decided, LAMBDA d : d.needs)

RECURSIVE SumPlanned(_)
SumPlanned(ds) == IF ds = <<>> THEN 0 ELSE Head(ds).planned + SumPlanned(Tail(ds))

\* C7 as claimed: on a completed run the bytes reported to the progress bar
\* add up to total_size_to_download, the sum of the remote sizes of the
\* files whose decision was not UpToDate.
C7_ByteAccounting ==
    Completed =>
        /\ total_size_to_download = SumPlanned(Planned)
        /\ progress_n = total_size_to_download

\* C7 as amended: the same, for a completed run during which no remote file
\* changed and whose planned files all had their size reported.
C7_ByteAccountingStableRemote ==
    ( /\ Completed
      /\ ~changedInRun
      /\ \A n \in 1..Len(Planned) : "size" \in DOMAIN Planned[n].data )
    => /\ total_size_to_download = SumPlanned(Planned)
       /\ progress_n = total_size_to_download

\* A run of two planned files, one of them streamed in two chunks, returned.
C7_Witness ==
    /\ Completed
    /\ ~changedInRun
    /\ Len(Planned) = 2
    /\ \A n \in 1..Len(Planned) : "size" \in DOMAIN Planned[n].data
    /\ \E n \in 1..Len(Planned) : Planned[n].planned = 2
    /\ progress_n = total_size_to_download
    /\ progress_n >= 3

\* The names of the folders from the traversal root down to folder d.
RECURSIVE AncestorNames(_)
AncestorNames(d) ==
    IF d = RootId THEN <<>> ELSE AncestorNames(FolderParent(d)) \o <<FolderName(d)>>

\* localRoot / relativePath / name for remote file f in this run.
ExpectedLoc(f) ==
    Resolve(startCwd, local_folder) \o AncestorNames(remote[f].parent)
        \o remote[f].name.comps

\* C8: in a run, every remote file is checked and written at
\* localRoot/relativePath/name, so no file identifier has two local paths.
C8_PathFidelity ==
    /\ \A d \in Decisions : d.loc = ExpectedLoc(d.id)
    /\ \A n \in 1..Len(opened) : opened[n].loc = ExpectedLoc(opened[n].id)

\* The run waits for a listing or metadata call (or for authentication).
InDiffPhase ==
    \/ pc \in {"auth", "list", "size"}
    \/ pc = "check" /\ i <= Len(all_files)

\* C9: no listing or metadata call is made once the run has touched the
\* local machine or started a download; no step taken while the run is
\* still listing and deciding (the failure of the call included) changes a
\* local file, a directory or the working directory; and the plan does not
\* change once the transfers have begun.
C9_PhaseOrdering ==
    /\ [](~lateCall)
    /\ [][InDiffPhase => UNCHANGED <<disk, dirs, cwd, opened, progress_n>>]_vars
    /\ [][(pc \in {"download", "chunk"})
             => UNCHANGED <<files_to_download, total_size_to_download>>]_vars

\* A listing or metadata call failed in a run over a remote tree that holds
\* files, and nothing exists locally.
C9_Witness ==
    /\ pc = "idle"
    /\ result = "error"
    /\ failedAt = "remote"
    /\ DOMAIN remote # {}
    /\ DOMAIN disk = {}
    /\ dirs = Prefixes(InitialCwd)
    /\ cwd = InitialCwd

\* C10: a run that plans nothing returns without creating localRoot,
\* changing the working directory, opening a local file or downloading.
C10_NothingPlannedNoEffect ==
    /\ []((Completed /\ files_to_download = <<>>) =>
            (~fsTouched /\ opened = <<>> /\ progress_n = 0 /\ cwd = startCwd))
    /\ [][(pc = "check" /\ i > Len(all_files) /\ files_to_download = <<>>)
             => (Completed' /\ UNCHANGED <<disk, dirs, cwd, opened, progress_n>>)]_vars

\* A run found every remote file up to date and returned; another returned
\* from an empty remote tree with no localRoot on disk.
C10_Witness ==
    /\ Completed
    /\ files_to_download = <<>>
    /\ \/ Decisions # {}
       \/ Resolve(startCwd, local_folder) \notin dirs

\* C11: during a run and after it, whether it returned or raised, the
\* working directory of the process is the one the run was started in.
C11_CwdNeverChanges == cwd = startCwd

\* The last run stopped in the download of a planned file, and nobody has
\* touched the local files since.
TransferFailed ==
    /\ pc = "idle" /\ result = "error" /\ failedAt = "chunk"
    /\ deleted = {} /\ truncated = {}

\* The local file of decision d is as the run found it.
AsBefore(d) ==
    IF d.local = <<>> THEN d.loc \notin DOMAIN disk
    ELSE d.loc \in DOMAIN disk /\ disk[d.loc] = d.local[1]

IsPrefix(s, t) == Len(s) <= Len(t) /\ s = SubSeq(t, 1, Len(s))

\* C12: when the download of the k-th planned file fails, the run has
\* opened the first k planned files and no later one; the files decided
\* up to date and the planned files after k are as the run found them; and,
\* the remote being as at the start of the run, the planned files before k
\* hold the whole remote content and file k holds a prefix of it.
C12_FailedTransferLocalState ==
    TransferFailed =>
        /\ k <= Len(files_to_download)
        /\ Len(opened) = k
        /\ \A n \in 1..k : opened[n].id = files_to_download[n].id
        /\ \A n \in 1..Len(decided) : ~decided[n].needs => AsBefore(decided[n])
        /\ \A n \in (k + 1)..Len(Planned) : AsBefore(Planned[n])
        /\ remote = remoteAtStart =>
              /\ \A n \in 1..(k - 1) :
                    disk[opened[n].loc] = remote[opened[n].id].content
              /\ IsPrefix(disk[opened[k].loc], remote[opened[k].id].content)

\* The run is at or past its first listing call.
InRemotePhase == pc \in {"list", "check", "size", "download", "chunk"}

\* C13: a run goes to authentication exactly when the instance has no
\* service, and makes remote calls only with a service; while it
\* authenticates it has listed, decided, opened and changed nothing; and
\* a step from authentication that sets no service ends the run with the
\* error, changing nothing on the local machine.
C13_AuthenticationFirst ==
    /\ [](InRemotePhase => service)
    /\ [](pc = "auth" =>
            /\ ~service
            /\ all_files = <<>> /\ decided = <<>> /\ opened = <<>>
            /\ progress_n = 0 /\ ~fsTouched)
    /\ [][(pc = "idle" /\ pc' # "idle") => (pc' = IF service THEN "list" ELSE "auth")]_vars
    /\ [][(pc = "auth" /\ ~service') =>
             /\ pc' = "idle" /\ result' = "error" /\ failedAt' = "auth"
             /\ all_files' = <<>> /\ decided' = <<>> /\ opened' = <<>>
             /\ UNCHANGED <<disk, dirs, cwd, runs>>]_vars

\* Authentication failed in a run over a remote tree that holds files.
C13_Witness ==
    /\ pc = "idle" /\ result = "error" /\ failedAt = "auth"
    /\ DOMAIN remote # {}
    /\ ~service

Folders == {RootId} \cup SubFolders

\* C14: for every folder, the pages that _list_files_in_folder requests add
\* up to the folder's direct children, in the listing order, each child
\* once, whether they fill no page, one page or several.
C14_Pagination ==
    \A d \in Folders :
        LET items == _list_files_in_folder(d)
        IN /\ items = Children(d)
           /\ \A m, n \in 1..Len(items) : m # n => items[m].id # items[n].id

\* A run has listed a root whose children take more than one page.
C14_Witness ==
    /\ pc = "check"
    /\ Len(Children(RootId)) > PageSize
    /\ "nextPageToken" \in DOMAIN FilesList(RootId, None)
    /\ Len(all_files) = Len(Children(RootId)) - 1

\* The position of a folder in the depth-first walk from the root.
WalkRank(d) == Len(AncestorNames(d))

\* The run holds the flattened item list of the remote tree.
Listed == pc \in {"check", "size", "download", "chunk"}

C16_ProgressDeltas ==
    /\ [][(pc = "chunk" /\ pc' # "idle") =>
             LET content == remote[files_to_download[k].id].content
             IN /\ progress_n' - progress_n = previous_progress' - previous_progress
                /\ previous_progress' = Min(previous_progress + ChunkSize, Len(content))
                /\ (pc' = "chunk") = (previous_progress' < Len(content))
                /\ (pc' = "download" /\ k' = k + 1) = (previous_progress' = Len(content))]_vars
    /\ [][(pc = "download" /\ pc' = "chunk") =>
             (previous_progress' = 0 /\ progress_n' = progress_n)]_vars
    /\ [](pc = "chunk" => previous_progress = Len(disk[opened[Len(opened)].loc]))

\* The second file of a run is in the middle of its stream: its cumulative
\* progress differs from the bar's total.
C16_Witness ==
    /\ pc = "chunk"
    /\ k = 2
    /\ previous_progress = 1
    /\ progress_n > previous_progress
    /\ previous_progress < Len(remote[files_to_download[k].id].content)

\* C17: for a file whose remote metadata carries no hash, the decision is
\* taken on existence and size alone, whatever the local content: it is
\* never a hash mismatch, and an empty local file is not compared with the
\* missing hash.
C17_AbsentHashIsUnknown ==
    \A d \in Decisions :
        ~SuppliesHash(d) =>
            /\ d.meta.md5 = NoMd5
            /\ Reason(d) # "HashMismatch"
            /\ d.needs = (d.local = <<>> \/ Len(d.local[1]) # RemoteSize(d))

\* A file without a remote hash was found up to date: in one case the
\* local file is empty, in another its content differs from the remote's.
C17_Witness ==
    \E d \in Decisions :
        /\ ~SuppliesHash(d)
        /\ "size" \in DOMAIN d.data
        /\ ~d.needs
        /\ d.local = <<<<>>>>

\* C18: for a file whose remote metadata carries no size, the size is 0 and
\* the file needs download exactly when no local file exists at its path.
C18_SizelessExistenceOnly ==
    \A d \in Decisions :
        "size" \notin DOMAIN d.data =>
            /\ d.meta.size = 0
            /\ d.needs = (d.local = <<>>)

\* C19: when nothing but add_message calls, one after the other, have
\* written under a key, get_messages returns the added messages in the
\* order of the calls.
C19_InsertionOrder ==
    \A key \in Keys :
        (sequential /\ onlyAdds[key]) => get_messages(key) = added[key]

\* C20: right after set_messages(key, msgs) has committed, get_messages(key)
\* is msgs.
C20_SetMessagesRoundTrip ==
    lastCall.op = "set" => get_messages(lastCall.key) = lastCall.arg

\* set_messages has replaced a stored conversation by a list in which an
\* answer follows a question.
C20_Witness ==
    /\ lastCall.op = "set"
    /\ lastCall.before # <<>>
    /\ lastCall.before # lastCall.arg
    /\ Len(lastCall.arg) = MaxMsgs
    /\ lastCall.arg[1].role = "user"
    /\ lastCall.arg[MaxMsgs].role = "assistant"
    /\ get_messages(lastCall.key) = lastCall.arg

\* C21: right after delete_last_message(key) on a stored conversation L,
\* the call has returned the last message of L and get_messages(key) is L
\* without it; on an empty conversation it has returned None and the table
\* is as it was.
C21_DeleteLastMessage ==
    lastCall.op = "delete_last" =>
        LET L == lastCall.before
        IN IF L = <<>>
           THEN lastCall.ret = Null /\ get_messages(lastCall.key) = <<>>
           ELSE /\ lastCall.ret = <<L[Len(L)]>>
                /\ get_messages(lastCall.key) = SubSeq(L, 1, Len(L) - 1)

\* C22: right after delete_message(key, idx) on a stored conversation L,
\* with idx in range the call has returned L[idx] and get_messages(key) is L
\* without the element at idx, the others in their order; with idx out of
\* range it has returned None and the conversation is L.
C22_DeleteMessage ==
    lastCall.op = "delete" =>
        LET L == lastCall.before
            idx == lastCall.arg[1]
        IN IF 0 <= idx /\ idx < Len(L)
           THEN /\ lastCall.ret = <<L[idx + 1]>>
                /\ Len(get_messages(lastCall.key)) = Len(L) - 1
                /\ \A n \in 1..(Len(L) - 1) :
                      get_messages(lastCall.key)[n] = IF n <= idx THEN L[n] ELSE L[n + 1]
           ELSE /\ lastCall.ret = Null
                /\ get_messages(lastCall.key) = L

\* delete_message has removed a message that is neither the first nor the
\* last of a conversation whose messages are not all alike.
C22_Witness ==
    /\ lastCall.op = "delete"
    /\ Len(lastCall.before) >= 3
    /\ lastCall.arg[1] = 1
    /\ lastCall.before[1] # lastCall.before[2]
    /\ lastCall.before[2] # lastCall.before[3]
    /\ lastCall.ret = <<lastCall.before[2]>>

\* C23: in a completed run the files opened for writing are the planned
\* files, each once, in the order of the flattened list, and no file decided
\* up to date has its local file opened.
C23_OnlyPlannedWritten ==
    Completed =>
        /\ [n \in 1..Len(opened) |-> opened[n].id]
              = [n \in 1..Len(Planned) |-> Planned[n].id]
        /\ files_to_download = SelectSeq(all_files, LAMBDA f : f.id \in TransferSet)
        /\ \A m, n \in 1..Len(opened) : m # n => opened[m].id # opened[n].id
        /\ \A d \in Decisions :
              ~d.needs => \A n \in 1..Len(opened) : opened[n].loc # d.loc

\* C24: every run starts in the working directory of the first run, and so
\* with the same absolute localRoot.
C24_SameStartDirectory ==
    /\ startCwd = InitialCwd
    /\ Resolve(startCwd, local_folder) = Resolve(InitialCwd, local_folder)

\* C25: the size added to the planned total for a file is the size its
\* decision was taken on.
C25_MetadataObservedOnce ==
    \A d \in Decisions : d.planned # -1 => d.planned = d.meta.size

\* C26: change detection reads the local file only if it exists, has the
\* size the remote reports and the remote supplies a hash; a missing file
\* and a size mismatch are decided without a read, a hash mismatch with one.
C26_ReadOnlyWhenNeeded ==
    \A d \in Decisions :
        /\ d.read =>
              /\ d.local # <<>>
              /\ Len(d.local[1]) = RemoteSize(d)
              /\ SuppliesHash(d)
        /\ Reason(d) \in {"Missing", "SizeMismatch"} => ~d.read
        /\ Reason(d) = "HashMismatch" => d.read

\* In one run a local file was read for its hash, and another, of a size
\* other than the remote's though the remote supplies a hash, was not.
C26_Witness ==
    /\ \E d \in Decisions : d.read
    /\ \E d \in Decisions :
          /\ ~d.read
          /\ d.local # <<>>
          /\ SuppliesHash(d)
          /\ Len(d.local[1]) # RemoteSize(d)

\* C27: no run writes two different remote files to the same local path.
C27_NoSilentOverwrite ==
    \A m, n \in 1..Len(opened) :
        opened[m].id # opened[n].id => opened[m].loc # opened[n].loc

\* The token the call finds: TOKEN when it is set, otherwise token.json.
FoundToken ==
    IF cred_in.TOKEN.kind = "json" THEN <<cred_in.TOKEN.data>>
    ELSE IF cred_in.TOKEN.kind = Unset THEN cred_in.token_json
    ELSE <<>>

\* C28: the call returns credentials only for a found token that is valid,
\* or that is expired with a refresh token and was refreshed; it raises if
\* no token is found and if the found token is invalid and not (expired
\* with a refresh token); and token.json changes only if the token was
\* read from it and refreshed, never if TOKEN is set.
C28_CredentialLoading ==
    /\ cred_result.state = "returned" =>
          /\ FoundToken # <<>>
          /\ \/ Valid(FoundToken[1]) /\ ~cred_result.refreshed
                  /\ cred_result.creds = FoundToken
             \/ /\ FoundToken[1].expired /\ FoundToken[1].refresh_token
                /\ cred_result.refreshed
                /\ cred_result.creds = <<Refreshed(FoundToken[1])>>
    /\ (cred_result.state # "none" /\ FoundToken = <<>>) => cred_result.state = "raised"
    /\ ( /\ cred_result.state # "none"
         /\ FoundToken # <<>>
         /\ ~Valid(FoundToken[1])
         /\ ~(FoundToken[1].expired /\ FoundToken[1].refresh_token) )
       => cred_result.state = "raised"
    /\ token_json # cred_in.token_json =>
          /\ cred_in.TOKEN.kind = Unset
          /\ cred_result.refreshed
          /\ token_json = <<Refreshed(cred_in.token_json[1])>>
    /\ cred_in.TOKEN.kind # Unset => token_json = cred_in.token_json

\* An expired token from the environment was refreshed and returned while a
\* token.json exists.
C28_Witness ==
    /\ cred_result.state = "returned"
    /\ cred_result.refreshed
    /\ cred_in.TOKEN.kind = "json"
    /\ cred_in.token_json # <<>>
    /\ cred_in.token_json # cred_result.creds

Assistant(messages) == SelectSeq(messages, LAMBDA m : m.role = "assistant")

\* C29: once every add_message call has committed, a key written by
\* add_message alone holds as many assistant messages as were added to it,
\* also when the calls of two sessions overlapped.
C29_NoAssistantLost ==
    \A key \in Keys :
        (onlyAdds[key] /\ \A s \in Sessions : sess[s].pc = "idle")
        => Len(Assistant(get_messages(key))) = Len(Assistant(added[key]))

====
